---- MODULE Spec2Model ----
(***************************************************************************)
(* Model of watcher.py, the PLC alarm watcher: the poll loop of main(),    *)
(* one cycle of check_once() statement by statement, the login handshake   *)
(* with its token recovery, the change detection, the capped dispatch and  *)
(* the state file.  The controller (its alarm table, its session tokens)   *)
(* and the notification transport are the environment.                     *)
(***************************************************************************)
EXTENDS Integers, Sequences, FiniteSets, TLC

(* ------------------------------ bounds -------------------------------- *)
\* alarm events the controller raises in one behaviour
MaxEvents == 4
\* rows the controller retains in its alarm table (older rows scroll out)
Retain == 3
\* MAX_NOTIFICATIONS_PER_CYCLE, int(os.getenv(..., "10")): the per-cycle cap
MAX_NOTIFICATIONS_PER_CYCLE == 2
\* dispatches cut short in one behaviour, by a non-success answer of the
\* notification transport or by a kill of the process
MaxFaults == 1
\* redirects in the history of a login response, and anchors in its body
MaxHist == 2
MaxLinks == 2
\* <tr> elements in the table of a page that ParseSpec starts from
MaxTrs == 4
\* data rows in a signals page that SignalsSpec starts from
MaxSigRows == 2
\* the seconds that datetime.now() can name in a file name
MaxTs == 2

(* ----------------------------- constants ------------------------------ *)
\* parse_alarms, line 295: a data row needs this many <td> cells
MIN_CELLS == 7
\* parse_signals, line 214: a signal row needs this many <td> cells
SIG_MIN_CELLS == 6
\* the status send_telegram and send_telegram_info accept
HTTP_OK == 200
\* statuses the notification transport answers
Statuses == {HTTP_OK, 500}

\* Python's None, for an alarm id and for a token
NoId == 0
NoTok == "none"
Tokens == {"A1", "B2"}

VARIABLES
    pc,          \* position of the process in main() / check_once()
    envOK,       \* the five required variables are set (require_env)
    logSignals,  \* LOG_SIGNALS
    stateFile,   \* STATE_FILE on disk
    sigBase,     \* SIGNALS_LOG_CSV on disk: whether it is there and its first line
    sigFiles,    \* the timestamps of the signal logs named <base>_<timestamp>.csv
    sigPage,     \* the signals page of the controller
    csv,         \* ALARM_LOG_CSV on disk: the rows appended, in order
    outbox,      \* messages the transport accepted (status 200), in order
    table,       \* the controller's alarm table, most recent first
    nextEv,      \* number of the next alarm event of the controller
    srvToken,    \* token of the controller's current session
    last_id, param0, r2, alarms_html, alarms, new_alarms,
    limited, skipped, sent, idx,           \* locals of check_once and callees
    lastReq,     \* the last page request of the running cycle
    loggedIn,    \* login_and_get_session returned in the running cycle
    form,        \* the beginsession form of login.htm, in login_and_get_session
    payload,     \* the data of the POST that login_and_get_session sent
    result,      \* how the last cycle ended: "none", "returned", "raised"
    faults,      \* dispatches cut short so far
    csvMark, outMark,   \* lengths of csv and outbox when the cycle started
    fileMark,           \* stateFile when the cycle started
    failMark,           \* what failed in this cycle (a send the transport
                        \* refused, the signals step), and the length of
                        \* outbox at that moment
    skippedDone,        \* events skipped by the cap in a cycle that completed
    sigWrote,           \* the lines written to signal logs in this cycle
    aborted,            \* the last cycle that a refused send ended, while the
                        \* state file is as that cycle left it
    tableSeen           \* a cycle has returned that fetched the table as it is now

locals == <<last_id, param0, r2, alarms_html, alarms, new_alarms,
            limited, skipped, sent, idx, lastReq, loggedIn, form, payload>>
disk == <<stateFile, csv, sigBase, sigFiles>>
plc == <<table, nextEv, srvToken, sigPage>>
config == <<envOK, logSignals>>
marks == <<csvMark, outMark, fileMark, failMark, skippedDone, sigWrote, aborted>>
ghost == <<marks, tableSeen>>
vars == <<pc, result, config, disk, outbox, plc, locals, faults, ghost>>

(* ------------------------------ helpers ------------------------------- *)
Reverse(s) == [i \in 1..Len(s) |-> s[Len(s) + 1 - i]]

Min(a, b) == IF a < b THEN a ELSE b

\* s[:n] of Python for n >= 0
Take(s, n) == SubSeq(s, 1, Min(n, Len(s)))

SeqsUpTo(S, n) == UNION {[1..k -> S] : k \in 0..n}

NoResp == [history |-> <<>>, url |-> NoTok, hrefs |-> <<>>, status |-> 0]
\* a document without a table element
NoPage == [hasTable |-> FALSE, trs |-> <<>>]
NoReq == [page |-> "none", token |-> NoTok]
NoFail == [at |-> "none", len |-> 0]

(* ----------------------------- state file ----------------------------- *)
\* exists: os.path.exists; readable: open and read succeed; parses: the
\* content is JSON; dict: the JSON value is an object (it has .get);
\* last_alarm_id: the value of the key, None when the object has no such key
StateFileOf(e, r, j, d, id) ==
    [exists |-> e, readable |-> r, parses |-> j, dict |-> d, last_alarm_id |-> id]

MissingFile == StateFileOf(FALSE, FALSE, FALSE, FALSE, NoId)
\* a file whose content is not JSON (empty, truncated)
CorruptFile == StateFileOf(TRUE, TRUE, FALSE, FALSE, NoId)
\* a file that cannot be opened or read
UnreadableFile == StateFileOf(TRUE, FALSE, FALSE, FALSE, NoId)
\* JSON that is no object: a list, a string, a number
NonDictFile == StateFileOf(TRUE, TRUE, TRUE, FALSE, NoId)
\* a JSON object without the key last_alarm_id
NoKeyFile == StateFileOf(TRUE, TRUE, TRUE, TRUE, NoId)

\* lines 79-80: the exception the read raises on the file, if any
read_exception(f) ==
    IF ~f.readable THEN "OSError"
    ELSE IF ~f.parses THEN "JSONDecodeError"
    ELSE IF ~f.dict THEN "AttributeError"
    ELSE "none"

\* a handler written as except (OSError, ValueError)
caught_narrow(e) == e \in {"OSError", "JSONDecodeError"}

\* line 81, except Exception: every one of these is a subclass of Exception
caught(e) == e \in {"OSError", "JSONDecodeError", "AttributeError"}

\* load_last_id lets an exception out only if its handler does not catch it
load_last_id_raises(f) ==
    /\ f.exists
    /\ read_exception(f) # "none"
    /\ ~caught(read_exception(f))

\* load_last_id: a missing file or any exception while reading yields None
load_last_id(f) ==
    IF ~f.exists THEN NoId
    ELSE IF read_exception(f) # "none" THEN NoId
    ELSE f.last_alarm_id

\* save_last_id: the file is overwritten with the given id
save_last_id(alarm_id) == StateFileOf(TRUE, TRUE, TRUE, TRUE, alarm_id)

(* ------------------------------ the PLC ------------------------------- *)
\* A row of the alarm table: ev numbers the real-world event; cells stands
\* for the rendered texts (ref, hora, transicion, valor, etiqueta) the id is
\* built from.  Two events may render the same texts.
Row(n, t) == [ev |-> n, cells |-> t]

\* parse_alarms, line 306: the id is the composite of the five cell texts
AlarmId(row) == row.cells

\* parse_alarms on a table of full rows: one record per row, in table order
parse_rows(rows) == [i \in 1..Len(rows) |-> [id |-> AlarmId(rows[i]), ev |-> rows[i].ev]]

\* A <tr> of the page: tds is the number of its <td> cells; ev and cells
\* are those of the row it renders.
Tr(n, row) == [tds |-> n, ev |-> row.ev, cells |-> row.cells]

\* the header row: <th> cells only
HeaderTr == Tr(0, Row(0, 0))

\* alarms.htm as the controller renders its table: the header, then one
\* <tr> of seven cells per row, most recent first
render(rows) ==
    [hasTable |-> TRUE,
     trs |-> <<HeaderTr>> \o [i \in 1..Len(rows) |-> Tr(MIN_CELLS, rows[i])]]

RECURSIVE extract_rows_break(_)
\* a loop that stops at the first short row (break for continue)
extract_rows_break(trs) ==
    IF trs = <<>> THEN <<>>
    ELSE IF Head(trs).tds < MIN_CELLS THEN <<>>
    ELSE <<Head(trs)>> \o extract_rows_break(Tail(trs))

RECURSIVE extract_rows(_)
\* lines 293-296: the loop over the data rows skips a row with too few cells
extract_rows(trs) ==
    IF trs = <<>> THEN <<>>
    ELSE IF Head(trs).tds < MIN_CELLS THEN extract_rows(Tail(trs))
    ELSE <<Head(trs)>> \o extract_rows(Tail(trs))

\* a parse that takes a table without a data row for a failure
parse_alarms_strict(page) ==
    IF ~page.hasTable \/ Len(page.trs) < 2
    THEN [raised |-> TRUE, alarms |-> <<>>]
    ELSE [raised |-> FALSE, alarms |-> parse_rows(extract_rows(Tail(page.trs)))]

\* parse_alarms, lines 282-320: no table raises; fewer than two rows give
\* []; else row 0 is skipped as the header and the other rows are extracted
parse_alarms(page) ==
    IF ~page.hasTable THEN [raised |-> TRUE, alarms |-> <<>>]
    ELSE IF Len(page.trs) < 2 THEN [raised |-> FALSE, alarms |-> <<>>]
    ELSE [raised |-> FALSE, alarms |-> parse_rows(extract_rows(Tail(page.trs)))]

(* ------------------------------ signals ------------------------------- *)
\* A <tr> of the signals page: tds cells; code n stands for "S<n>", and the
\* column title "S<n> label [unit]" is taken to follow the code.
SigTr(n, c) == [tds |-> n, code |-> c]
SigHeaderTr == SigTr(0, 0)

\* lines 201-209: the first table of the page, or none
SigPageOf(trs) == [hasTable |-> TRUE, trs |-> trs]

\* the signals page of a controller with the one signal S1
PlcSignalsPage == SigPageOf(<<SigHeaderTr, SigTr(SIG_MIN_CELLS, 1)>>)

RECURSIVE signal_rows(_)
\* lines 212-229: rows with fewer than six cells are skipped
signal_rows(trs) ==
    IF trs = <<>> THEN <<>>
    ELSE IF Head(trs).tds < SIG_MIN_CELLS THEN signal_rows(Tail(trs))
    ELSE <<[code |-> Head(trs).code]>> \o signal_rows(Tail(trs))

RECURSIVE sort_signals(_)
\* lines 231-242: signals.sort(key=key_fn), a stable sort on the number
sort_signals(ss) ==
    IF ss = <<>> THEN <<>>
    ELSE LET x == ss[Len(ss)]
             front == sort_signals(SubSeq(ss, 1, Len(ss) - 1))
             k == Cardinality({i \in 1..Len(front) : front[i].code <= x.code})
         IN  SubSeq(front, 1, k) \o <<x>> \o SubSeq(front, k + 1, Len(front))

\* parse_signals, lines 201-243
parse_signals(page) ==
    IF ~page.hasTable THEN [raised |-> TRUE, signals |-> <<>>]
    ELSE IF Len(page.trs) < 2 THEN [raised |-> FALSE, signals |-> <<>>]
    ELSE [raised |-> FALSE, signals |-> sort_signals(signal_rows(Tail(page.trs)))]

\* lines 253-255: the signal columns of the header, in the order of the list
signal_headers(signals) == [i \in 1..Len(signals) |-> signals[i].code]

\* A signal log on disk.  Its first line is all the program ever reads of
\* it: decodes says whether that read succeeds, header gives the signal
\* columns of the line (<<>> for a file without a line).
SigFile(e, d, h) == [exists |-> e, decodes |-> d, header |-> h]
NoSigFile == SigFile(FALSE, FALSE, <<>>)

\* SIGNALS_LOG_CSV itself, among the targets of a write; the other targets
\* are the timestamps 1..MaxTs of the files <base>_<timestamp>.csv
BaseCsv == 0

\* a line appended to a signal log
HeaderLine(target, headers) == [file |-> target, line |-> "header", cols |-> headers]
RowLine(target, headers) == [file |-> target, line |-> "row", cols |-> headers]

\* an append that keeps the base file as its target when the header differs
append_signals_same_file(signals, base, files, ts) ==
    IF signals = <<>> THEN [base |-> base, files |-> files, wrote |-> <<>>]
    ELSE LET headers == signal_headers(signals)
         IN  [base |-> IF base.exists THEN base ELSE SigFile(TRUE, TRUE, headers),
              files |-> files,
              wrote |-> (IF base.exists /\ (~base.decodes \/ base.header = headers)
                         THEN <<>> ELSE <<HeaderLine(BaseCsv, headers)>>)
                        \o <<RowLine(BaseCsv, headers)>>]

\* append_signals_snapshot_to_csv, lines 246-278, at second ts: the files
\* after the call and the lines it wrote
append_signals_snapshot_to_csv(signals, base, files, ts) ==
    IF signals = <<>> THEN [base |-> base, files |-> files, wrote |-> <<>>]
    ELSE LET headers == signal_headers(signals)
             \* lines 260-270: a first line that cannot be read is logged
             \* and the target stays the base file
             differs == base.exists /\ base.decodes /\ base.header # headers
             file_exists == base.exists /\ ~differs
             target_csv == IF differs THEN ts ELSE BaseCsv
         IN  [base |-> IF ~base.exists THEN SigFile(TRUE, TRUE, headers) ELSE base,
              files |-> IF differs THEN files \cup {ts} ELSE files,
              wrote |-> (IF file_exists THEN <<>> ELSE <<HeaderLine(target_csv, headers)>>)
                        \o <<RowLine(target_csv, headers)>>]

(* ---------------------------- login form ------------------------------ *)
\* an <input> of the form; name "" stands for an input without a name, and
\* value "" for one without a value (inp.get("value", ""))
Input(t, n, v) == [type |-> t, name |-> n, value |-> v]

\* the dict without a key
NoPayload == [n \in {} |-> ""]
NoForm == [found |-> FALSE, inputs |-> <<>>]
FormOf(inputs) == [found |-> TRUE, inputs |-> inputs]

PLC_USERNAME == "user"
PLC_PASSWORD == "secret"

\* login.htm as a controller may serve it: a hidden seed and the two
\* credential inputs, without and with a named submit button
ServedForms ==
    { FormOf(<<Input("hidden", "seed", "s1"), Input("text", "param1", ""),
               Input("password", "param2", "")>>),
      FormOf(<<Input("hidden", "seed", "s1"), Input("text", "param1", ""),
               Input("password", "param2", ""), Input("submit", "login", "Enter")>>) }

RECURSIVE parse_hidden_inputs(_)
\* lines 128-135: every <input> of the form with a name, of whatever type,
\* sets data[name]; a later input replaces an earlier one of the same name
parse_hidden_inputs(inputs) ==
    IF inputs = <<>> THEN NoPayload
    ELSE LET inp == inputs[Len(inputs)]
             data == parse_hidden_inputs(SubSeq(inputs, 1, Len(inputs) - 1))
         IN  IF inp.name = "" THEN data
             ELSE (inp.name :> inp.value) @@ data

\* lines 156-158: the two credentials are set on top of the inputs
login_payload(f) ==
    ("param2" :> PLC_PASSWORD) @@ ("param1" :> PLC_USERNAME) @@ parse_hidden_inputs(f.inputs)

(* --------------------------- token recovery --------------------------- *)
\* re.search(r"param0=([A-F0-9]+)", u): the token of the URL, or no match
re_search(u) == u.param0

Url(t) == [param0 |-> t]

RECURSIVE last_match(_)
\* a scan without the break: the last URL that matches gives the token
last_match(urls) ==
    IF urls = <<>> THEN NoTok
    ELSE LET rest == last_match(Tail(urls))
         IN  IF rest # NoTok THEN rest ELSE re_search(Head(urls))

RECURSIVE first_match(_)
\* lines 166-170: the first URL of the list that matches gives the token
first_match(urls) ==
    IF urls = <<>> THEN NoTok
    ELSE IF re_search(Head(urls)) # NoTok THEN re_search(Head(urls))
    ELSE first_match(Tail(urls))

\* lines 172-178: the first anchor with an href, if the URLs gave nothing
body_token(hrefs) ==
    IF Len(hrefs) > 0 THEN re_search(hrefs[1]) ELSE NoTok

\* lines 164-178
extract_param0(resp) ==
    LET urls == resp.history \o <<resp.url>>
        fromUrls == first_match(urls)
    IN  IF fromUrls # NoTok THEN fromUrls ELSE body_token(resp.hrefs)

UrlToks == {Url(t) : t \in Tokens \cup {NoTok}}

\* every answer to the login POST within the bounds (LoginSpec starts from these)
AllResponses ==
    [history : SeqsUpTo(UrlToks, MaxHist), url : UrlToks,
     hrefs : SeqsUpTo(UrlToks, MaxLinks), status : {HTTP_OK}]

\* the answers of a controller that issued token t: the redirect carries the
\* token, or the final URL does, or a link of the body does, or nothing does
CycleResponses(t) ==
    { [history |-> <<Url(t)>>, url |-> Url(NoTok), hrefs |-> <<>>, status |-> HTTP_OK],
      [history |-> <<>>, url |-> Url(t), hrefs |-> <<>>, status |-> HTTP_OK],
      [history |-> <<>>, url |-> Url(NoTok), hrefs |-> <<Url(t)>>, status |-> HTTP_OK],
      [history |-> <<>>, url |-> Url(NoTok), hrefs |-> <<>>, status |-> HTTP_OK] }

(* -------------------------- change detection -------------------------- *)
RECURSIVE detect_new_inclusive(_, _)
\* a loop that appends before it tests: the matching record is kept
detect_new_inclusive(as, lid) ==
    IF as = <<>> THEN <<>>
    ELSE IF lid # NoId /\ Head(as).id = lid THEN <<Head(as)>>
    ELSE <<Head(as)>> \o detect_new_inclusive(Tail(as), lid)

RECURSIVE detect_new_scrolled(_, _)
\* a loop that takes nothing as new when the walk finds no match
detect_new_scrolled(as, lid) ==
    IF as = <<>> THEN <<>>
    ELSE IF lid # NoId /\ Head(as).id = lid THEN <<>>
    ELSE IF \A k \in 1..Len(as) : as[k].id # lid THEN <<>>
    ELSE <<Head(as)>> \o detect_new_scrolled(Tail(as), lid)

RECURSIVE detect_new(_, _)
\* lines 365-369: walk the alarms, stop at the one whose id is last_id
detect_new(as, lid) ==
    IF as = <<>> THEN <<>>
    ELSE IF lid # NoId /\ Head(as).id = lid THEN <<>>
    ELSE <<Head(as)>> \o detect_new(Tail(as), lid)

(* ---------------------------- notification ---------------------------- *)
AlarmMsg(a) == [kind |-> "alarm", ev |-> a.ev, id |-> a.id, sent |-> 0, total |-> 0, skipped |-> 0]
SummaryMsg(s, t, k) == [kind |-> "summary", ev |-> 0, id |-> NoId, sent |-> s, total |-> t, skipped |-> k]

\* a send that does not look at the status
send_telegram_ignore(status) == "ok"

\* lines 343-344 and 409-410: any status but 200 raises
send_telegram(status) == IF status # HTTP_OK THEN "raise" ELSE "ok"

\* a request built with a token kept from an earlier login
request_token_stale(p) == CHOOSE t \in Tokens : t # p

\* lines 187 and 195: the token put in the query string of a page request
request_token(p) == p

(* ------------------------------- Init --------------------------------- *)
\* no cycle stands aborted
NoAbort == [set |-> FALSE, alarms |-> <<>>, new |-> <<>>, sentMsgs |-> <<>>, file |-> MissingFile]

\* no signal log is on disk yet, and the controller has its one signal
FreshSignals ==
    /\ sigPage = PlcSignalsPage
    /\ sigBase = NoSigFile
    /\ sigFiles = {}
    /\ sigWrote = <<>>

\* the process before main runs, whatever the controller shows
InitProcess ==
    /\ envOK \in BOOLEAN
    /\ logSignals \in BOOLEAN
    /\ csv = <<>>
    /\ outbox = <<>>
    /\ last_id = NoId
    /\ param0 = NoTok
    /\ alarms = <<>>
    /\ new_alarms = <<>>
    /\ limited = <<>>
    /\ skipped = 0
    /\ sent = 0
    /\ idx = 0
    /\ lastReq = NoReq
    /\ loggedIn = FALSE
    /\ result = "none"
    /\ faults = 0
    /\ csvMark = 0
    /\ outMark = 0
    /\ failMark = NoFail
    /\ fileMark = MissingFile
    /\ skippedDone = {}
    /\ aborted = NoAbort
    /\ tableSeen = FALSE

\* the process starts against a controller that has raised no alarm yet
Init ==
    /\ InitProcess
    /\ stateFile \in {MissingFile, CorruptFile}
    /\ pc = "boot"
    /\ table = <<>>
    /\ nextEv = 1
    /\ srvToken = NoTok
    /\ r2 = NoResp
    /\ form = NoForm
    /\ payload = NoPayload
    /\ FreshSignals
    /\ alarms_html = NoPage

\* the alarms that a cycle parsed are those of the table as it is now
StillThere(as) == as = parse_alarms(render(table)).alarms

\* the frame of check_once is gone: its locals and those of its callees
ClearLocals ==
    /\ last_id' = NoId
    /\ param0' = NoTok
    /\ r2' = NoResp
    /\ alarms_html' = NoPage
    /\ alarms' = <<>>
    /\ new_alarms' = <<>>
    /\ limited' = <<>>
    /\ skipped' = 0
    /\ sent' = 0
    /\ idx' = 0
    /\ lastReq' = NoReq
    /\ loggedIn' = FALSE
    /\ form' = NoForm
    /\ payload' = NoPayload

\* an exception nothing catches: the process ends
Raise_uncaught ==
    /\ pc' = "exited"
    /\ result' = "raised"
    /\ ClearLocals

\* main, lines 420-424: the exception is caught, logged, and the loop sleeps
Raise ==
    /\ pc' = "sleep"
    /\ result' = "raised"
    /\ ClearLocals

\* check_once returns; main goes on to the sleep, lines 423-424
Return ==
    /\ pc' = "sleep"
    /\ result' = "returned"
    /\ ClearLocals

(* ------------------------------- main --------------------------------- *)
\* require_env and the start of main, lines 62-68 and 413-415
Boot ==
    /\ pc = "boot"
    /\ pc' = IF envOK THEN "start" ELSE "exited"
    /\ UNCHANGED <<result, config, disk, outbox, plc, locals, faults, ghost>>

\* time.sleep(POLL_SECONDS) ends and the loop iterates, lines 417 and 424
Sleep ==
    /\ pc = "sleep"
    /\ pc' = "start"
    /\ UNCHANGED <<result, config, disk, outbox, plc, locals, faults, ghost>>

(* ----------------------------- check_once ----------------------------- *)
\* line 347: the cycle starts by loading the state
Start ==
    /\ pc = "start"
    /\ csvMark' = Len(csv)
    /\ outMark' = Len(outbox)
    /\ failMark' = NoFail
    /\ fileMark' = stateFile
    /\ sigWrote' = <<>>
    /\ IF load_last_id_raises(stateFile)
       THEN Raise
       ELSE /\ last_id' = load_last_id(stateFile)
            /\ pc' = "login_get"
            /\ result' = "none"
            /\ UNCHANGED <<param0, r2, alarms_html, alarms, new_alarms, limited,
                           skipped, sent, idx, lastReq, loggedIn, form, payload>>
    /\ UNCHANGED <<config, disk, outbox, plc, faults, skippedDone, aborted, tableSeen>>

\* login_and_get_session, lines 139-154: GET login.htm and find the form
LoginGet ==
    /\ pc = "login_get"
    /\ \E ok \in BOOLEAN, f \in ServedForms :
         IF ok
         THEN /\ form' = f
              /\ pc' = "login_post"
              /\ UNCHANGED <<result, last_id, param0, r2, alarms_html, alarms, new_alarms,
                             limited, skipped, sent, idx, lastReq, loggedIn, payload>>
         ELSE Raise
    /\ UNCHANGED <<config, disk, outbox, plc, faults, ghost>>

\* lines 156-161: POST the payload; the controller opens a session
LoginPost ==
    /\ pc = "login_post"
    /\ \E t \in Tokens \ {srvToken} :
         /\ srvToken' = t
         /\ \E resp \in CycleResponses(t), ok \in BOOLEAN :
              IF ok
              THEN /\ payload' = login_payload(form)
                   /\ r2' = resp
                   /\ pc' = "login_scan"
                   /\ UNCHANGED <<result, last_id, param0, alarms_html, alarms, new_alarms,
                                  limited, skipped, sent, idx, lastReq, loggedIn, form>>
              ELSE Raise
    /\ UNCHANGED <<config, disk, outbox, table, nextEv, sigPage, faults, ghost>>

\* lines 163-178: recover the token from the answer
LoginScan ==
    /\ pc = "login_scan"
    /\ param0' = extract_param0(r2)
    /\ pc' = "login_ret"
    /\ UNCHANGED <<result, config, disk, outbox, plc, last_id, r2, alarms_html, alarms,
                   new_alarms, limited, skipped, sent, idx, lastReq, loggedIn, form, payload,
                   faults, ghost>>

\* lines 180-183 and 349-351: no token raises; else the session is returned
LoginRet ==
    /\ pc = "login_ret"
    /\ IF param0 = NoTok
       THEN Raise
       ELSE /\ loggedIn' = TRUE
            /\ r2' = NoResp
            /\ form' = NoForm
            /\ payload' = NoPayload
            /\ pc' = IF logSignals THEN "signals" ELSE "fetch_alarms"
            /\ UNCHANGED <<result, last_id, param0, alarms_html, alarms, new_alarms,
                           limited, skipped, sent, idx, lastReq>>
    /\ UNCHANGED <<config, disk, outbox, plc, faults, ghost>>

\* a signals step inside a try: a failure is logged and the cycle goes on
Signals_bestEffort ==
    /\ pc = "signals"
    /\ \E answer \in {"table", "notable", "error"}, writable \in BOOLEAN, ts \in 1..MaxTs :
         LET parsed == parse_signals(IF answer = "table" THEN sigPage ELSE NoPage)
             out == append_signals_snapshot_to_csv(parsed.signals, sigBase, sigFiles, ts)
         IN  IF answer = "error" \/ parsed.raised \/ (parsed.signals # <<>> /\ ~writable)
             THEN /\ failMark' = [at |-> "signals", len |-> Len(outbox)]
                  /\ pc' = "fetch_alarms"
                  /\ UNCHANGED <<result, locals, sigBase, sigFiles, sigWrote>>
             ELSE /\ sigBase' = out.base
                  /\ sigFiles' = out.files
                  /\ sigWrote' = out.wrote
                  /\ failMark' = failMark
                  /\ lastReq' = [page |-> "signals", token |-> request_token(param0)]
                  /\ pc' = "fetch_alarms"
                  /\ UNCHANGED <<result, last_id, param0, r2, alarms_html, alarms, new_alarms,
                                 limited, skipped, sent, idx, loggedIn, form, payload>>
    /\ UNCHANGED <<config, stateFile, csv, outbox, plc, faults,
                   csvMark, outMark, fileMark, skippedDone, aborted, tableSeen>>

\* lines 352-355: the signals page is fetched, parsed and logged.  The
\* request may fail, the page may lack its table, and the open of line 274
\* may fail; each of these raises before a line is written.
Signals ==
    /\ pc = "signals"
    /\ \E answer \in {"table", "notable", "error"}, writable \in BOOLEAN, ts \in 1..MaxTs :
         LET parsed == parse_signals(IF answer = "table" THEN sigPage ELSE NoPage)
             out == append_signals_snapshot_to_csv(parsed.signals, sigBase, sigFiles, ts)
         IN  IF answer = "error" \/ parsed.raised \/ (parsed.signals # <<>> /\ ~writable)
             THEN /\ Raise
                  /\ failMark' = [at |-> "signals", len |-> Len(outbox)]
                  /\ UNCHANGED <<sigBase, sigFiles, sigWrote>>
             ELSE /\ sigBase' = out.base
                  /\ sigFiles' = out.files
                  /\ sigWrote' = out.wrote
                  /\ failMark' = failMark
                  /\ lastReq' = [page |-> "signals", token |-> request_token(param0)]
                  /\ pc' = "fetch_alarms"
                  /\ UNCHANGED <<result, last_id, param0, r2, alarms_html, alarms, new_alarms,
                                 limited, skipped, sent, idx, loggedIn, form, payload>>
    /\ UNCHANGED <<config, stateFile, csv, outbox, plc, faults,
                   csvMark, outMark, fileMark, skippedDone, aborted, tableSeen>>

\* line 357, fetch_alarms_page: the page shows the table as it is now
FetchAlarms ==
    /\ pc = "fetch_alarms"
    /\ \E answer \in {"table", "notable", "error"} :
         IF answer = "error"
         THEN Raise
         ELSE /\ lastReq' = [page |-> "alarms", token |-> request_token(param0)]
              /\ alarms_html' = IF answer = "table" THEN render(table) ELSE NoPage
              /\ pc' = "parse"
              /\ UNCHANGED <<result, last_id, param0, r2, alarms, new_alarms,
                             limited, skipped, sent, idx, loggedIn, form, payload>>
    /\ UNCHANGED <<config, disk, outbox, plc, faults, ghost>>

\* line 359: alarms = parse_alarms(alarms_html, alarms_url)
ParseAlarms ==
    /\ pc = "parse"
    /\ IF parse_alarms(alarms_html).raised
       THEN Raise
       ELSE /\ alarms' = parse_alarms(alarms_html).alarms
            /\ pc' = "parsed"
            /\ UNCHANGED <<result, last_id, param0, r2, alarms_html, new_alarms,
                           limited, skipped, sent, idx, lastReq, loggedIn, form, payload>>
    /\ UNCHANGED <<config, disk, outbox, plc, faults, ghost>>

\* lines 360-362: an empty list of alarms returns
CheckAlarms ==
    /\ pc = "parsed"
    /\ IF alarms = <<>>
       THEN Return /\ tableSeen' = StillThere(alarms)
       ELSE /\ pc' = "detect"
            /\ UNCHANGED <<result, locals, tableSeen>>
    /\ UNCHANGED <<config, disk, outbox, plc, faults, marks>>

\* lines 365-369: the loop that collects the new alarms
Detect ==
    /\ pc = "detect"
    /\ new_alarms' = detect_new(alarms, last_id)
    /\ pc' = "check_new"
    /\ UNCHANGED <<result, config, disk, outbox, plc, last_id, param0, r2, alarms_html,
                   alarms, limited, skipped, sent, idx, lastReq, loggedIn, form, payload,
                   faults, ghost>>

\* a cycle that reports, through send_telegram_info, that nothing is new
CheckNew_heartbeat ==
    /\ pc = "check_new"
    /\ IF new_alarms = <<>>
       THEN /\ Return
            /\ tableSeen' = StillThere(alarms)
            /\ outbox' = Append(outbox, SummaryMsg(0, 0, 0))
       ELSE /\ new_alarms' = Reverse(new_alarms)
            /\ idx' = 1
            /\ pc' = "log_csv"
            /\ UNCHANGED <<result, last_id, param0, r2, alarms_html, alarms, limited,
                           skipped, sent, lastReq, loggedIn, form, payload, tableSeen, outbox>>
    /\ UNCHANGED <<config, disk, plc, faults, marks>>

\* lines 371-376: nothing new returns; else the list is put oldest first
CheckNew ==
    /\ pc = "check_new"
    /\ IF new_alarms = <<>>
       THEN Return /\ tableSeen' = StillThere(alarms)
       ELSE /\ new_alarms' = Reverse(new_alarms)
            /\ idx' = 1
            /\ pc' = "log_csv"
            /\ UNCHANGED <<result, last_id, param0, r2, alarms_html, alarms, limited,
                           skipped, sent, lastReq, loggedIn, form, payload, tableSeen>>
    /\ UNCHANGED <<config, disk, outbox, plc, faults, marks>>

\* append_alarm_to_csv: the row written for an alarm (the id and the event)
csv_row(a) == [ev |-> a.ev, id |-> a.id]

\* a log loop that runs over the capped list only
LogCsv_capped ==
    /\ pc = "log_csv"
    /\ csv' = Append(csv, csv_row(new_alarms[idx]))
    /\ IF idx < Min(Len(new_alarms), MAX_NOTIFICATIONS_PER_CYCLE)
       THEN idx' = idx + 1 /\ pc' = "log_csv"
       ELSE idx' = 0 /\ pc' = "limit"
    /\ UNCHANGED <<result, config, stateFile, sigBase, sigFiles, outbox, plc, last_id, param0, r2,
                   alarms_html, alarms, new_alarms, limited, skipped, sent,
                   lastReq, loggedIn, form, payload, faults, ghost>>

\* lines 379-380: one iteration of the loop that logs every new alarm
LogCsv ==
    /\ pc = "log_csv"
    /\ csv' = Append(csv, csv_row(new_alarms[idx]))
    /\ IF idx < Len(new_alarms)
       THEN idx' = idx + 1 /\ pc' = "log_csv"
       ELSE idx' = 0 /\ pc' = "limit"
    /\ UNCHANGED <<result, config, stateFile, sigBase, sigFiles, outbox, plc, last_id, param0, r2,
                   alarms_html, alarms, new_alarms, limited, skipped, sent,
                   lastReq, loggedIn, form, payload, faults, ghost>>

\* the cap keeps the newest alarms: to_notify[-MAX_NOTIFICATIONS_PER_CYCLE:]
limit_newest(to_notify) ==
    SubSeq(to_notify,
           Len(to_notify) - Min(MAX_NOTIFICATIONS_PER_CYCLE, Len(to_notify)) + 1,
           Len(to_notify))

\* line 385: to_notify[:MAX_NOTIFICATIONS_PER_CYCLE]
limit(to_notify) == Take(to_notify, MAX_NOTIFICATIONS_PER_CYCLE)

\* the state is saved before the dispatch instead of after it
Limit_savesFirst ==
    /\ pc = "limit"
    /\ limited' = limit(new_alarms)
    /\ skipped' = Len(new_alarms) - Len(limited')
    /\ sent' = 0
    /\ idx' = 1
    /\ pc' = IF limited' = <<>> THEN "summary" ELSE "send"
    /\ stateFile' = save_last_id(alarms[1].id)
    /\ UNCHANGED <<result, config, csv, sigBase, sigFiles, outbox, plc, last_id, param0, r2, alarms_html,
                   alarms, new_alarms, lastReq, loggedIn, form, payload, faults, ghost>>

\* lines 382-388: the cap is applied
Limit ==
    /\ pc = "limit"
    /\ limited' = limit(new_alarms)
    /\ skipped' = Len(new_alarms) - Len(limited')
    /\ sent' = 0
    /\ idx' = 1
    /\ pc' = IF limited' = <<>> THEN "summary" ELSE "send"
    /\ UNCHANGED <<result, config, disk, outbox, plc, last_id, param0, r2, alarms_html,
                   alarms, new_alarms, lastReq, loggedIn, form, payload, faults, ghost>>

\* the cycle that the exception of a send ends: the table it fetched, the
\* alarms it detected, the messages it got through, the state file it began with
AbortedNow ==
    [set |-> TRUE, alarms |-> alarms, new |-> new_alarms,
     sentMsgs |-> SubSeq(outbox, outMark + 1, Len(outbox)), file |-> fileMark]

\* a send loop that marks the table as seen when a send is refused
Send_savesOnFail ==
    /\ pc = "send"
    /\ \E st \in Statuses :
         /\ st # HTTP_OK => faults < MaxFaults
         /\ faults' = IF st # HTTP_OK THEN faults + 1 ELSE faults
         /\ outbox' = IF st = HTTP_OK THEN Append(outbox, AlarmMsg(limited[idx])) ELSE outbox
         /\ failMark' = IF st # HTTP_OK /\ failMark = NoFail
                        THEN [at |-> "alarm", len |-> Len(outbox)] ELSE failMark
         /\ IF send_telegram(st) = "raise"
            THEN Raise /\ aborted' = AbortedNow /\ stateFile' = save_last_id(alarms[1].id)
            ELSE /\ aborted' = aborted
                 /\ stateFile' = stateFile
                 /\ sent' = sent + 1
                 /\ IF idx < Len(limited)
                    THEN idx' = idx + 1 /\ pc' = "send"
                    ELSE idx' = 0 /\ pc' = "summary"
                 /\ UNCHANGED <<result, last_id, param0, r2, alarms_html, alarms,
                                new_alarms, limited, skipped, lastReq, loggedIn, form, payload>>
    /\ UNCHANGED <<config, csv, sigBase, sigFiles, plc, csvMark, outMark, fileMark,
                   skippedDone, sigWrote, tableSeen>>

\* lines 389-391: one iteration of the loop that notifies the capped alarms
Send ==
    /\ pc = "send"
    /\ \E st \in Statuses :
         /\ st # HTTP_OK => faults < MaxFaults
         /\ faults' = IF st # HTTP_OK THEN faults + 1 ELSE faults
         /\ outbox' = IF st = HTTP_OK THEN Append(outbox, AlarmMsg(limited[idx])) ELSE outbox
         /\ failMark' = IF st # HTTP_OK /\ failMark = NoFail
                        THEN [at |-> "alarm", len |-> Len(outbox)] ELSE failMark
         /\ IF send_telegram(st) = "raise"
            THEN Raise /\ aborted' = AbortedNow
            ELSE /\ aborted' = aborted
                 /\ sent' = sent + 1
                 /\ IF idx < Len(limited)
                    THEN idx' = idx + 1 /\ pc' = "send"
                    ELSE idx' = 0 /\ pc' = "summary"
                 /\ UNCHANGED <<result, last_id, param0, r2, alarms_html, alarms,
                                new_alarms, limited, skipped, lastReq, loggedIn, form, payload>>
    /\ UNCHANGED <<config, disk, plc, csvMark, outMark, fileMark, skippedDone, sigWrote, tableSeen>>

\* lines 393-400: the summary, when the cap left alarms out
Summary ==
    /\ pc = "summary"
    /\ IF skipped > 0
       THEN \E st \in Statuses :
              /\ st # HTTP_OK => faults < MaxFaults
              /\ faults' = IF st # HTTP_OK THEN faults + 1 ELSE faults
              /\ outbox' = IF st = HTTP_OK
                           THEN Append(outbox, SummaryMsg(sent, Len(new_alarms), skipped))
                           ELSE outbox
              /\ failMark' = IF st # HTTP_OK /\ failMark = NoFail
                             THEN [at |-> "summary", len |-> Len(outbox)] ELSE failMark
              /\ IF send_telegram(st) = "raise"
                 THEN Raise /\ aborted' = AbortedNow
                 ELSE /\ pc' = "save"
                      /\ UNCHANGED <<result, locals, aborted>>
       ELSE /\ pc' = "save"
            /\ UNCHANGED <<result, locals, outbox, faults, failMark, aborted>>
    /\ UNCHANGED <<config, disk, plc, csvMark, outMark, fileMark, skippedDone, sigWrote, tableSeen>>

\* the last notified alarm is saved as the last seen
Save_lastNotified ==
    /\ pc = "save"
    /\ stateFile' = save_last_id(IF limited = <<>> THEN alarms[1].id
                                 ELSE limited[Len(limited)].id)
    /\ skippedDone' = skippedDone \cup
                      {new_alarms[i].ev : i \in (Len(limited) + 1)..Len(new_alarms)}
    /\ pc' = "done"
    /\ UNCHANGED <<result, config, csv, sigBase, sigFiles, outbox, plc, locals, faults,
                   csvMark, outMark, fileMark, failMark, sigWrote, tableSeen>>
    /\ aborted' = NoAbort

\* line 403: the newest alarm of the table is saved as the last seen
Save ==
    /\ pc = "save"
    /\ stateFile' = save_last_id(alarms[1].id)
    /\ skippedDone' = skippedDone \cup
                      {new_alarms[i].ev : i \in (Len(limited) + 1)..Len(new_alarms)}
    /\ pc' = "done"
    /\ UNCHANGED <<result, config, csv, sigBase, sigFiles, outbox, plc, locals, faults,
                   csvMark, outMark, fileMark, failMark, sigWrote, tableSeen>>
    /\ aborted' = NoAbort

\* line 404: the cycle is logged and check_once returns
Done ==
    /\ pc = "done"
    /\ Return
    /\ tableSeen' = StillThere(alarms)
    /\ UNCHANGED <<config, disk, outbox, plc, faults, marks>>

(* ---------------------------- environment ----------------------------- *)
\* the controller raises an alarm: a new first row; the oldest scrolls out
AlarmArrives ==
    /\ nextEv <= MaxEvents
    /\ \E t \in (IF nextEv = Retain THEN {nextEv, 1} ELSE {nextEv}) :
         table' = Take(<<Row(nextEv, t)>> \o table, Retain)
    /\ nextEv' = nextEv + 1
    /\ tableSeen' = FALSE
    /\ UNCHANGED <<pc, result, config, disk, outbox, srvToken, sigPage, locals,
                   faults, marks>>

\* the positions between the first row logged and the state saved
DispatchPcs == {"log_csv", "limit", "send", "summary", "save"}

\* the process is killed and started again: the disk is all that is kept
Restart ==
    /\ pc \notin {"boot", "exited"}
    /\ IF pc \in DispatchPcs
       THEN faults < MaxFaults /\ faults' = faults + 1
       ELSE faults' = faults
    /\ pc' = "boot"
    /\ result' = "none"
    /\ ClearLocals
    /\ UNCHANGED <<config, disk, outbox, plc, ghost>>

Cycle ==
    \/ Start \/ LoginGet \/ LoginPost \/ LoginScan \/ LoginRet \/ Signals
    \/ FetchAlarms \/ ParseAlarms \/ CheckAlarms \/ Detect \/ CheckNew \/ LogCsv \/ Limit
    \/ Send \/ Summary \/ Save \/ Done

Next == Boot \/ Sleep \/ Cycle \/ AlarmArrives \/ Restart

Spec == Init /\ [][Next]_vars

(* ------------- the loop against a table that does not change ----------- *)
\* the tables of a controller that has raised k alarms and raises no more
FixedTables == {[i \in 1..k |-> Row(k + 1 - i, k + 1 - i)] : k \in 0..Retain}

LoopInit ==
    /\ InitProcess
    /\ stateFile \in {MissingFile, CorruptFile}
    /\ pc = "boot"
    /\ table \in FixedTables
    /\ nextEv = MaxEvents + 1
    /\ srvToken = NoTok
    /\ r2 = NoResp
    /\ form = NoForm
    /\ payload = NoPayload
    /\ FreshSignals
    /\ alarms_html = NoPage

LoopNext == Boot \/ Sleep \/ Cycle \/ Restart

\* The process is sequential and each of its blocking calls ends: the
\* requests carry a timeout (REQUEST_TIMEOUT, timeout=10) and the sleep is
\* finite.  So a step of the process that stays possible is taken.
LoopSpec == LoopInit /\ [][LoopNext]_vars /\ WF_vars(Boot \/ Sleep \/ Cycle)

(* ------------------- the token recovery on any answer ------------------ *)
\* login_and_get_session holds the answer r2 of the POST, line 161
LoginInit ==
    /\ InitProcess
    /\ stateFile \in {MissingFile, CorruptFile}
    /\ envOK
    /\ pc = "login_scan"
    /\ table = <<>>
    /\ nextEv = 1
    /\ srvToken \in Tokens
    /\ r2 \in AllResponses
    /\ form \in ServedForms
    /\ payload = login_payload(form)
    /\ FreshSignals
    /\ alarms_html = NoPage

LoginNext == LoginScan \/ LoginRet

LoginSpec == LoginInit /\ [][LoginNext]_vars

(* ----------------------- the parse on any page ------------------------- *)
\* the cell counts of a <tr>: none (<th> only, a separator), one too few,
\* just enough, one more
CellCounts == {0, MIN_CELLS - 1, MIN_CELLS, MIN_CELLS + 1}

\* the pages with a table of up to MaxTrs rows, row i rendering event k + 1 - i
\* (most recent first), and the page without a table
AllPages ==
    {NoPage} \cup
    UNION { { [hasTable |-> TRUE,
               trs |-> [i \in 1..k |-> Tr(f[i], Row(k + 1 - i, k + 1 - i))]]
              : f \in [1..k -> CellCounts] } : k \in 0..MaxTrs }

\* check_once holds the page that line 357 fetched
ParseInit ==
    /\ InitProcess
    /\ envOK
    /\ ~logSignals
    /\ stateFile \in {MissingFile, CorruptFile}
    /\ pc = "parse"
    /\ alarms_html \in AllPages
    /\ table = <<>>
    /\ nextEv = MaxEvents + 1
    /\ srvToken = NoTok
    /\ r2 = NoResp
    /\ form = NoForm
    /\ payload = NoPayload
    /\ FreshSignals

ParseNext == ParseAlarms \/ CheckAlarms

ParseSpec == ParseInit /\ [][ParseNext]_vars

(* ------------------ the signal log on any page and file ---------------- *)
\* a row of a signals page: short, or the row of S1 or of S2
SigRowKinds == {SigTr(SIG_MIN_CELLS - 1, 1), SigTr(SIG_MIN_CELLS, 1), SigTr(SIG_MIN_CELLS, 2)}

AllSigPages ==
    {NoPage, SigPageOf(<<>>)} \cup
    UNION { { SigPageOf(<<SigHeaderTr>> \o rows) : rows \in [1..k -> SigRowKinds] }
            : k \in 0..MaxSigRows }

\* the base file: none, one whose first line cannot be read, and files
\* with no line or with the header of some signal set
AllSigFiles ==
    {NoSigFile} \cup
    { SigFile(TRUE, d, h) : d \in BOOLEAN, h \in {<<>>, <<1>>, <<2>>, <<1, 2>>} }

\* cycles with signal logging against a quiet alarm table
SigInit ==
    /\ InitProcess
    /\ envOK
    /\ logSignals
    /\ stateFile = MissingFile
    /\ pc = "start"
    /\ table = <<>>
    /\ nextEv = MaxEvents + 1
    /\ srvToken = NoTok
    /\ r2 = NoResp
    /\ form = NoForm
    /\ payload = NoPayload
    /\ alarms_html = NoPage
    /\ sigPage \in AllSigPages
    /\ sigBase \in AllSigFiles
    /\ sigFiles = {}
    /\ sigWrote = <<>>

SigNext ==
    \/ Start \/ LoginGet \/ LoginPost \/ LoginScan \/ LoginRet \/ Signals
    \/ FetchAlarms \/ ParseAlarms \/ CheckAlarms \/ Sleep

SignalsSpec == SigInit /\ [][SigNext]_vars

(* --------------------- the load on any state file ---------------------- *)
\* the state files a cycle can find: none, one it cannot read, one whose
\* content is no JSON, no object or has no key, and one a cycle has saved
AllStateFiles ==
    {MissingFile, UnreadableFile, CorruptFile, NonDictFile, NoKeyFile}
        \cup {save_last_id(k) : k \in 1..MaxEvents}

\* main is at the top of its loop, line 417
LoadInit ==
    /\ InitProcess
    /\ envOK
    /\ stateFile \in AllStateFiles
    /\ pc = "start"
    /\ table \in FixedTables
    /\ nextEv = MaxEvents + 1
    /\ srvToken = NoTok
    /\ r2 = NoResp
    /\ form = NoForm
    /\ payload = NoPayload
    /\ FreshSignals
    /\ alarms_html = NoPage

LoadNext == Start \/ LoginGet \/ Sleep

LoadSpec == LoadInit /\ [][LoadNext]_vars

(* =============================== claims =============================== *)
\* the positions of a cycle after the change detection
AfterDetect == {"log_csv", "limit", "send", "summary", "save", "done"}
AfterLog == {"send", "summary", "save", "done"}

\* the records the detection of the running cycle yields, oldest first: the
\* list line 376 reverses, and the list it has reversed
Detected == IF pc = "check_new" THEN Reverse(new_alarms) ELSE new_alarms

\* the rows of the fetched table whose id is last_id
Matches == {k \in 1..Len(alarms) : last_id # NoId /\ alarms[k].id = last_id}
FirstMatch == CHOOSE k \in Matches : \A j \in Matches : k <= j

\* C1: when last_id is the id of some record of the fetched table, the
\* detection yields exactly the records before the first such record, oldest
\* first; the matching record and all after it are left out.
C1_PrefixBeforeMatch ==
    (pc \in {"check_new"} \cup AfterDetect /\ Matches # {}) =>
        /\ Len(Detected) = FirstMatch - 1
        /\ \A i \in 1..(FirstMatch - 1) : Detected[i] = alarms[FirstMatch - i]

\* two new alarms were found in front of the record last seen
C1_Witness ==
    /\ pc = "log_csv"
    /\ Matches # {}
    /\ FirstMatch = 3
    /\ Len(new_alarms) = 2
    /\ new_alarms[1].ev < new_alarms[2].ev

\* C2: when last_id is absent, or is the id of no record of the fetched
\* table, every record of the table is new and the detection yields the
\* whole table, oldest first.
C2_WholeTableWhenNoMatch ==
    (pc \in {"check_new"} \cup AfterDetect /\ Matches = {}) =>
        /\ Len(Detected) = Len(alarms)
        /\ \A i \in 1..Len(alarms) : Detected[i] = alarms[Len(alarms) + 1 - i]

\* the alarm last seen has scrolled out of a full table
C2_Witness ==
    /\ pc = "log_csv"
    /\ last_id # NoId
    /\ Matches = {}
    /\ Len(alarms) = Retain
    /\ Len(new_alarms) = Retain

\* what the running cycle has appended to the log and got accepted so far
LoggedNow == SubSeq(csv, csvMark + 1, Len(csv))
SentNow == SubSeq(outbox, outMark + 1, Len(outbox))

\* C3: in a cycle with n new alarms and cap c whose sends all succeed,
\* exactly min(n, c) alarm notifications are sent, for the min(n, c) oldest
\* new alarms, oldest first; one summary (sent c, total n, skipped n - c)
\* follows them if n > c and none is sent if n <= c.
C3_CappedDispatch ==
    pc \in {"save", "done"} =>
        LET n == Len(new_alarms)
            c == MAX_NOTIFICATIONS_PER_CYCLE
            m == Min(n, c)
            unsent == {new_alarms[i].ev : i \in 1..n} \ {SentNow[i].ev : i \in 1..m}
        IN  /\ Len(SentNow) = IF n > c THEN m + 1 ELSE m
            /\ \A i \in 1..m :
                 /\ SentNow[i].kind = "alarm"
                 /\ \E k \in 1..n : SentNow[i] = AlarmMsg(new_alarms[k])
                 /\ \A e \in unsent : SentNow[i].ev < e
            /\ \A i \in 1..(m - 1) : SentNow[i].ev < SentNow[i + 1].ev
            /\ Cardinality(unsent) = n - m
            /\ n > c => SentNow[m + 1] = SummaryMsg(c, n, n - c)

\* a cycle with more new alarms than the cap has sent its summary
C3_Witness ==
    /\ pc = "done"
    /\ Len(new_alarms) > MAX_NOTIFICATIONS_PER_CYCLE
    /\ Len(SentNow) = MAX_NOTIFICATIONS_PER_CYCLE + 1
    /\ SentNow[Len(SentNow)].kind = "summary"

\* C4: every alarm detected as new is in the alarm log before the first
\* notification of the cycle is attempted: nothing is sent or refused while
\* the log loop runs, and from the first send on the log holds them all.
C4_LoggedBeforeNotify ==
    /\ pc \in {"log_csv", "limit"} => (SentNow = <<>> /\ failMark = NoFail)
    /\ pc \in AfterLog =>
         LoggedNow = [i \in 1..Len(new_alarms) |-> csv_row(new_alarms[i])]

\* the first send is about to be attempted, with an alarm the cap leaves out
C4_Witness ==
    /\ pc = "send"
    /\ idx = 1
    /\ SentNow = <<>>
    /\ Len(new_alarms) > MAX_NOTIFICATIONS_PER_CYCLE
    /\ Len(LoggedNow) = Len(new_alarms)

\* C5: once the transport has reported non-success for an alarm, the cycle
\* is over: no alarm notification and no summary is sent after it.
C5_FailFast ==
    failMark.at = "alarm" =>
        /\ Len(outbox) = failMark.len
        /\ pc \in {"sleep", "start", "boot"}

\* the transport refused the second alarm of a cycle, after taking the first
C5_Witness ==
    /\ failMark.at = "alarm"
    /\ failMark.len = outMark + 1
    /\ result = "raised"
    /\ pc = "sleep"

\* C6: a cycle that completes dispatch persists the id of the newest alarm
\* it observed (the first record of the table), not of the last one it
\* notified; an alarm the cap skipped in a completed cycle is never among
\* the alarms a later cycle notifies, restarts included.
C6_NewestObservedSaved ==
    /\ pc = "done" =>
         /\ load_last_id(stateFile) = alarms[1].id
         /\ alarms[1].id = AlarmId(alarms_html.trs[2])
    /\ pc \in AfterLog =>
         \A i \in 1..Len(limited) : limited[i].ev \notin skippedDone

\* a later cycle notifies a newer alarm while an alarm that an earlier,
\* completed cycle skipped is still in the table
C6_Witness ==
    /\ pc = "send"
    /\ \E k \in 1..Len(alarms) : alarms[k].ev \in skippedDone
    /\ \A i \in 1..Len(limited) : limited[i].ev \notin skippedDone

\* the positions of a cycle before its state is written
BeforeSaved ==
    {"login_get", "login_post", "login_scan", "login_ret", "signals", "fetch_alarms",
     "parse", "parsed", "detect", "check_new", "log_csv", "limit", "send", "summary", "save"}

\* C7: the persisted last_alarm_id is read at the start of the cycle and
\* written only at the end of a cycle that succeeded; a cycle that raises,
\* at whatever step, leaves the state file as it was when the cycle began.
C7_StateWrittenOnSuccessOnly ==
    /\ pc \in BeforeSaved =>
         (stateFile = fileMark /\ last_id = load_last_id(fileMark))
    /\ result = "raised" => stateFile = fileMark

\* a cycle raised at the summary, after notifications went out, with the
\* state file of a previous cycle untouched
C7_Witness ==
    /\ result = "raised"
    /\ failMark.at = "summary"
    /\ Len(outbox) > outMark
    /\ stateFile.parses
    /\ stateFile = fileMark

CyclePcs == BeforeSaved \cup {"done"}

\* C8: every exception of a cycle is caught at the loop boundary: a cycle,
\* successful or failed, is left only for the sleep; the sleep is left only
\* for the start of the next cycle; the process ends only on missing
\* configuration at startup.  (A kill of the process puts it back to boot.)
\* It is checked under LoopSpec: each cycle ends (or the process is killed),
\* and each sleep is followed by the next cycle.
C8_LoopSurvivesCycle ==
    /\ [][ /\ (pc \in CyclePcs /\ pc' \notin CyclePcs) => pc' \in {"sleep", "boot"}
           /\ (pc = "sleep" /\ pc' # "sleep") => pc' \in {"start", "boot"}
           /\ (pc = "start" /\ pc' # "start") => pc' \in {"login_get", "boot"}
           /\ result' = "raised" => pc' \in {"sleep", "start"}
           /\ pc' = "exited" => (pc \in {"boot", "exited"} /\ ~envOK) ]_vars
    /\ (pc \in CyclePcs \cup {"start"}) ~> (pc \in {"sleep", "boot"})
    /\ (pc = "sleep") ~> (pc \in {"start", "boot"})

\* a cycle raised after a notification went out, the loop slept, and the
\* next cycle is about to start
C8_Witness ==
    /\ pc = "start"
    /\ result = "raised"
    /\ Len(outbox) > outMark

\* C9: every page request of a cycle is made after that cycle's own login
\* and carries the token that login obtained, which is the token of the
\* controller's newest session.
C9_FreshLoginPerCycle ==
    /\ lastReq # NoReq =>
         /\ loggedIn
         /\ lastReq.token = param0
         /\ lastReq.token = srvToken
         /\ lastReq.token # NoTok
    /\ pc \in {"signals", "fetch_alarms"} => (loggedIn /\ param0 = srvToken)

\* the alarms page was requested in a cycle that follows a completed one
C9_Witness ==
    /\ pc = "parse"
    /\ lastReq.page = "alarms"
    /\ stateFile.parses
    /\ lastReq.token = srvToken

\* the token the two passes of the recovery are to give on an answer
ExpectedToken(resp) ==
    LET urls == resp.history \o <<resp.url>>
        hits == {i \in 1..Len(urls) : urls[i].param0 # NoTok}
    IN  IF hits # {}
        THEN urls[CHOOSE i \in hits : \A j \in hits : i <= j].param0
        ELSE IF resp.hrefs # <<>> /\ resp.hrefs[1].param0 # NoTok
        THEN resp.hrefs[1].param0
        ELSE NoTok

\* C10: the token is the first match over the redirect-history URLs followed
\* by the final URL; only if none of them matches is the first hyperlink of
\* the body examined; if neither pass gives a token the login raises and no
\* session is returned.
C10_TokenRecoveryOrder ==
    [][ /\ pc = "login_scan" => param0' = ExpectedToken(r2)
        /\ pc = "login_ret" =>
             IF ExpectedToken(r2) = NoTok
             THEN pc' = "sleep" /\ result' = "raised" /\ ~loggedIn' /\ param0' = NoTok
             ELSE /\ pc' \in {"signals", "fetch_alarms"}
                  /\ loggedIn'
                  /\ param0' = ExpectedToken(r2) ]_vars

\* the second redirect carries a token, the final URL and the link another
C10_Witness ==
    /\ pc = "login_ret"
    /\ r2.history = <<Url(NoTok), Url("A1")>>
    /\ r2.url = Url("B2")
    /\ r2.hrefs = <<Url("B2")>>
    /\ param0 = "A1"

\* a state file that gives no id: missing, unreadable, or not parseable
\* into an object
NoStateIn(f) == ~f.exists \/ ~f.readable \/ ~f.parses \/ ~f.dict

\* C11: loading the state never raises: on a missing file, an unreadable
\* file or content that cannot be parsed, the load yields an absent
\* last_alarm_id and the cycle goes on to the login; on a file a cycle has
\* saved it yields the saved id.
C11_LoadNeverRaises ==
    [][ (pc = "start" /\ pc' # "start") =>
            /\ pc' = "login_get"
            /\ result' # "raised"
            /\ NoStateIn(stateFile) => last_id' = NoId
            /\ ~NoStateIn(stateFile) => last_id' = stateFile.last_alarm_id ]_vars

\* the cycle goes on after a state file that holds a JSON value with no .get
C11_Witness ==
    /\ pc = "login_get"
    /\ fileMark = NonDictFile
    /\ stateFile = NonDictFile
    /\ last_id = NoId
    /\ result = "none"

\* the data rows of a page that have enough cells, by their position
FullRows(page) == {i \in 2..Len(page.trs) : page.trs[i].tds >= MIN_CELLS}

\* C12: a document whose first table has fewer than two rows (the header
\* only) parses to an empty sequence without an error; a document with no
\* table makes the parse raise, and the cycle with it.
C12_HeaderOnlyIsEmpty ==
    [][ pc = "parse" =>
          /\ ~alarms_html.hasTable => (result' = "raised" /\ pc' = "sleep")
          /\ (alarms_html.hasTable /\ Len(alarms_html.trs) < 2) =>
                (pc' = "parsed" /\ alarms' = <<>> /\ result' # "raised") ]_vars

\* the page has a table with its header row only, and it parsed to nothing
C12_Witness ==
    /\ pc = "parsed"
    /\ alarms_html.hasTable
    /\ Len(alarms_html.trs) = 1
    /\ alarms = <<>>
    /\ result # "raised"

\* C13: the extraction skips every data row with fewer than the minimum
\* number of cells and extracts all the others, later ones included: the
\* output holds exactly the rows with enough cells, in the order of the table.
C13_ShortRowsSkipped ==
    (pc = "parsed" /\ Len(alarms_html.trs) >= 2) =>
        LET full == FullRows(alarms_html)
            nth(j) == CHOOSE i \in full : Cardinality({m \in full : m <= i}) = j
        IN  /\ Len(alarms) = Cardinality(full)
            /\ \A j \in 1..Len(alarms) :
                 /\ alarms[j].ev = alarms_html.trs[nth(j)].ev
                 /\ alarms[j].id = AlarmId(alarms_html.trs[nth(j)])

\* a short row stands between two full rows, and both were extracted
C13_Witness ==
    /\ pc = "parsed"
    /\ Len(alarms_html.trs) = 4
    /\ alarms_html.trs[2].tds >= MIN_CELLS
    /\ alarms_html.trs[3].tds < MIN_CELLS
    /\ alarms_html.trs[4].tds >= MIN_CELLS
    /\ Len(alarms) = 2
    /\ alarms[1].ev = alarms_html.trs[2].ev
    /\ alarms[2].ev = alarms_html.trs[4].ev

\* C14: in the first cycle ever (no state file, so no last_id) with a table
\* that is not empty, the newest alarm is recorded as seen when the cycle
\* completes, and no notification of the cycle is about it.
C14_FirstRunNewestNotNotified ==
    (pc \in AfterLog /\ fileMark = MissingFile /\ last_id = NoId) =>
        /\ \A i \in 1..Len(SentNow) : SentNow[i] # AlarmMsg(alarms[1])
        /\ pc = "done" => load_last_id(stateFile) = alarms[1].id

\* the name/value pairs of a payload
Pairs(data) == {<<n, data[n]>> : n \in DOMAIN data}

\* the name/value pairs of the hidden inputs of a form
HiddenPairs(f) ==
    {<<f.inputs[i].name, f.inputs[i].value>> :
        i \in {k \in 1..Len(f.inputs) : f.inputs[k].type = "hidden"}}

\* C15: the payload posted to the form's action is exactly the name/value
\* pairs of the hidden inputs of the login form, values as served, plus the
\* two credential fields; no other input of the form contributes.
C15_PayloadIsHiddenPlusCredentials ==
    pc \in {"login_scan", "login_ret"} =>
        Pairs(payload) = HiddenPairs(form) \cup
                           {<<"param1", PLC_USERNAME>>, <<"param2", PLC_PASSWORD>>}

\* the header that line 253 derives from the signal set of a page
DerivedHeader(page) == signal_headers(parse_signals(page).signals)

\* the call of append_signals_snapshot_to_csv returns in this step
SignalsLogged == pc = "signals" /\ pc' = "fetch_alarms"

RowsOf(as) == [i \in 1..Len(as) |-> csv_row(as[i])]

\* the table fetched in the running cycle is the one the aborted cycle fetched
SameTableAsAborted == aborted.set /\ alarms = aborted.alarms

\* C17: a cycle that a refused alarm or summary send ends has logged its new
\* alarms and leaves last_alarm_id as it was; a later cycle that fetches the
\* same table detects the same new alarms, appends them to the log a second
\* time and sends again the notifications that had gone through.
C17_AtLeastOnce ==
    /\ aborted.set =>
         /\ stateFile = aborted.file
         /\ \E k \in 0..Len(csv) :
              SubSeq(csv, k + 1, k + Len(aborted.new)) = RowsOf(aborted.new)
    /\ (SameTableAsAborted /\ pc \in {"check_new"} \cup AfterDetect) =>
         Detected = aborted.new
    /\ (SameTableAsAborted /\ pc \in AfterLog) =>
         /\ LoggedNow = RowsOf(aborted.new)
         /\ \A i \in 1..Len(aborted.new) :
              Cardinality({j \in 1..Len(csv) : csv[j] = csv_row(aborted.new[i])}) >= 2
    /\ (SameTableAsAborted /\ pc \in {"summary", "save"}) =>
         /\ Len(SentNow) >= Len(aborted.sentMsgs)
         /\ \A i \in 1..Len(aborted.sentMsgs) :
              /\ SentNow[i] = aborted.sentMsgs[i]
              /\ Cardinality({j \in 1..Len(outbox) : outbox[j] = SentNow[i]}) >= 2

\* the cycle after one that a send ended, over the same table, has sent
\* again a notification that had gone through
C17_Witness ==
    /\ SameTableAsAborted
    /\ pc = "save"
    /\ aborted.sentMsgs # <<>>
    /\ SentNow[1] = aborted.sentMsgs[1]
    /\ Len(csv) >= 2 * Len(aborted.new)

\* C18: with signal logging enabled, a failure of the fetch, the parse or
\* the logging of the signals ends the cycle there, before the alarm page is
\* fetched: the cycle has detected, logged and notified no alarm, and
\* last_alarm_id is as the cycle found it.
C18_SignalsFailureAbortsCycle ==
    failMark.at = "signals" =>
        /\ logSignals
        /\ pc \in {"sleep", "start", "boot"}
        /\ pc = "sleep" => result = "raised"
        /\ lastReq.page # "alarms"
        /\ alarms_html = NoPage /\ alarms = <<>> /\ new_alarms = <<>>
        /\ Len(csv) = csvMark
        /\ Len(outbox) = outMark
        /\ stateFile = fileMark

\* the signals step failed while the table held an alarm that no cycle has
\* seen yet
C18_Witness ==
    /\ failMark.at = "signals"
    /\ pc = "sleep"
    /\ result = "raised"
    /\ table # <<>>
    /\ load_last_id(stateFile) = NoId
    /\ csv = <<>> /\ outbox = <<>>

\* the positions of a cycle between the parse and the end of the detection
DetectPcs == {"parsed", "detect", "check_new"}

\* the running cycle parsed no alarm, or the newest record it parsed has the
\* persisted id
QuietCase ==
    /\ pc \in DetectPcs
    /\ \/ alarms = <<>>
       \/ last_id # NoId /\ last_id = load_last_id(fileMark) /\ alarms[1].id = last_id

\* the running cycle parsed a table, and the table has not changed since a
\* cycle that fetched it returned
RepeatCase == pc \in DetectPcs /\ tableSeen

\* C19: a cycle whose table is empty, or whose newest record has the
\* persisted last_alarm_id, appends nothing to the alarm log, sends nothing
\* and does not write the state, and it returns; so does every cycle over the
\* table that the last completed cycle saw.
C19_QuietCycle ==
    [][ (QuietCase \/ RepeatCase) =>
          /\ Len(csv) = csvMark /\ csv' = csv
          /\ Len(outbox) = outMark /\ outbox' = outbox
          /\ stateFile = fileMark /\ stateFile' = stateFile
          /\ pc' \in DetectPcs \cup {"sleep", "boot"}
          /\ pc' = "check_new" => new_alarms' = <<>>
          /\ pc' = "sleep" => result' = "returned" ]_vars

\* a cycle returned without a row, a message or a write, over the table
\* that a cycle which notified an alarm had left as seen
C19_Witness ==
    /\ pc = "sleep"
    /\ result = "returned"
    /\ tableSeen
    /\ table # <<>>
    /\ load_last_id(stateFile) = AlarmId(table[1])
    /\ Len(csv) = csvMark
    /\ Len(outbox) = outMark
    /\ outbox # <<>>

====
